---- MODULE Spec2Model ----
(***************************************************************************)
(* A model of the tailwind-cn class formatter (tw-cn-core/src/index.ts):   *)
(* the tokenizer, the variant splitter, the classifier, the order scorer,  *)
(* formatClasses and categorize, and of the command line that rewrites the *)
(* class strings of source files (formatTailwindInDir).  Strings are       *)
(* sequences of one-character strings, so that tokenizing, joining and     *)
(* trimming are computed and not assumed.                                  *)
(*                                                                         *)
(* Spec          calls of formatClasses and tokenize                       *)
(* ClassifySpec  calls of categorize, formatClasses and tokenize that      *)
(*               exercise the classifier and the variant splitter          *)
(* CliSpec       runs of formatTailwindInDir over a directory              *)
(***************************************************************************)
EXTENDS Integers, Sequences, FiniteSets, Bags, TLC

VARIABLES
    input,      \* the class string handed to formatClasses / tokenize
    opts,       \* the FormatOptions of the call
    pc,         \* "input" | "returned" | "threw" | "reformatted" | "rethrew" | "tokenized"
                \* | "categorized"
    tokens,     \* splitTokens(input) of the last call
    parsed,     \* the parsed items of the last formatClasses call
    buckets,    \* the sorted buckets of the last formatClasses call
    emitted,    \* the tokens in the order the flat output joins them
    ret,        \* the value formatClasses returned
    ret2,       \* the value formatClasses returned for its own flat output
    pieces,     \* the pieces the caller assembles the input from
    typed,      \* the number of pieces typed so far
    lastIndex,  \* the lastIndex of each entry of opts.tailwind.customUtilities
    ordered,    \* the value categorize returned
    disk,       \* the source files formatTailwindInDir discovers, in glob order
    cliOpts,    \* the options of the command line: dry, useCn
    cliPc,      \* "idle" | "running" | "done" | "failed"
    cursor,     \* the position of the loop over the files
    changed,    \* the counter of the files reported as formatted
    log,        \* one entry per file the loop finished: before, after, mutated
    run         \* the number of the run: 1, then 2 on the files the first run left

coreVars == <<input, opts, pc, tokens, parsed, buckets, emitted, ret, ret2, pieces, typed,
              lastIndex, ordered>>

cliVars == <<disk, cliOpts, cliPc, cursor, changed, log, run>>

vars == <<input, opts, pc, tokens, parsed, buckets, emitted, ret, ret2, pieces, typed,
          lastIndex, ordered, disk, cliOpts, cliPc, cursor, changed, log, run>>

----------------------------------------------------------------------------
(* Characters and strings *)

\* The characters /\s/ matches, among those the model's inputs use.
Whitespace == {" ", "\n"}

\* The characters the regular expression atom . does not match.
LineTerminators == {"\n", "\r"}

\* Case folding of the "i" flag, for the letters the model's inputs use.
Lower(ch) ==
    CASE ch = "S" -> "s"
      [] ch = "M" -> "m"
      [] OTHER -> ch

StartsWith(s, p) == Len(s) >= Len(p) /\ \A i \in 1..Len(p) : s[i] = p[i]

\* StartsWith under the "i" flag
StartsWithFolded(s, p) ==
    Len(s) >= Len(p) /\ \A i \in 1..Len(p) : Lower(s[i]) = Lower(p[i])

Drop(s, n) == SubSeq(s, n + 1, Len(s))

StartsWithAny(s, list) == \E i \in 1..Len(list) : StartsWith(s, list[i])

\* s has p at position i (1-based)
HasAt(s, p, i) == i + Len(p) - 1 <= Len(s) /\ \A j \in 1..Len(p) : s[i + j - 1] = p[j]

\* p.*$ somewhere in s: p occurs and no line terminator follows it
ContainsThenDotStarEnd(s, p) ==
    \E i \in 1..Len(s) :
        /\ HasAt(s, p, i)
        /\ \A j \in (i + Len(p))..Len(s) : s[j] \notin LineTerminators

\* p.* somewhere in s (no end anchor): p occurs
Contains(s, p) == \E i \in 1..Len(s) : HasAt(s, p, i)

\* ^p.*$ : s starts with p and holds no line terminator after it
StartsThenDotStarEnd(s, p) ==
    /\ StartsWith(s, p)
    /\ \A j \in (Len(p) + 1)..Len(s) : s[j] \notin LineTerminators

RECURSIVE Join(_, _)
\* Array.prototype.join
Join(list, sep) ==
    IF list = <<>> THEN <<>>
    ELSE IF Len(list) = 1 THEN list[1]
    ELSE list[1] \o sep \o Join(Tail(list), sep)

RECURSIVE TrimStart(_)
TrimStart(s) ==
    IF s # <<>> /\ s[1] \in Whitespace THEN TrimStart(Tail(s)) ELSE s

RECURSIVE TrimEnd(_)
TrimEnd(s) ==
    IF s # <<>> /\ s[Len(s)] \in Whitespace THEN TrimEnd(SubSeq(s, 1, Len(s) - 1)) ELSE s

\* String.prototype.trim
Trim(s) == TrimEnd(TrimStart(s))

RECURSIVE FlatMap(_, _)
\* order.flatMap(k => f[k])
FlatMap(order, f) ==
    IF order = <<>> THEN <<>> ELSE f[order[1]] \o FlatMap(Tail(order), f)

----------------------------------------------------------------------------
(* Defaults *)

GroupKeys ==
    {"layout", "spacing", "sizing", "typography", "colors", "borders",
     "effects", "interactivity", "accessibility", "misc"}

DEFAULT_ORDER ==
    <<"layout", "spacing", "sizing", "typography", "colors", "borders",
      "effects", "interactivity", "accessibility", "misc">>

DEFAULT_VARIANTS ==
    << <<"s","m">>, <<"m","d">>, <<"l","g">>, <<"x","l">>, <<"2","x","l">>,
       <<"d","a","r","k">>, <<"l","i","g","h","t">>, <<"p","o","r","t","r","a","i","t">>,
       <<"l","a","n","d","s","c","a","p","e">>,
       <<"m","o","t","i","o","n","-","s","a","f","e">>,
       <<"m","o","t","i","o","n","-","r","e","d","u","c","e">>, <<"h","o","v","e","r">>,
       <<"f","o","c","u","s">>, <<"f","o","c","u","s","-","v","i","s","i","b","l","e">>,
       <<"f","o","c","u","s","-","w","i","t","h","i","n">>, <<"a","c","t","i","v","e">>,
       <<"v","i","s","i","t","e","d">>, <<"d","i","s","a","b","l","e","d">>,
       <<"f","i","r","s","t">>, <<"l","a","s","t">>, <<"o","n","l","y">>, <<"o","d","d">>,
       <<"e","v","e","n">>, <<"o","p","e","n">>, <<"c","h","e","c","k","e","d">>,
       <<"r","e","q","u","i","r","e","d">>, <<"i","n","v","a","l","i","d">>,
       <<"r","t","l">>, <<"l","t","r">>, <<"g","r","o","u","p","-","h","o","v","e","r">>,
       <<"g","r","o","u","p","-","f","o","c","u","s">>,
       <<"p","e","e","r","-","h","o","v","e","r">>,
       <<"p","e","e","r","-","f","o","c","u","s">> >>

----------------------------------------------------------------------------
(* Utils *)

\* makeVariantRegex: the vocabulary of the compiled pattern
\* ^(?:\[[^\]]+\]|(?:v1|v2|...)):   with flag i
VariantList(variants) ==
    IF variants # <<>> THEN variants ELSE DEFAULT_VARIANTS

\* the alternative \[[^\]]+\]: at the start of rest; the length matched, or 0
ArbMatchLen(rest) ==
    IF rest # <<>> /\ rest[1] = "[" /\ \E k \in 2..Len(rest) : rest[k] = "]"
    THEN LET k == CHOOSE k \in 2..Len(rest) :
                      /\ rest[k] = "]"
                      /\ \A j \in 2..(k - 1) : rest[j] # "]"
         IN  IF k >= 3 /\ k + 1 <= Len(rest) /\ rest[k + 1] = ":"
             THEN k + 1 ELSE 0
    ELSE 0

\* whether the named alternative v, then ":", matches at the start of rest
NamedMatches(rest, v) ==
    /\ Len(rest) >= Len(v) + 1
    /\ StartsWithFolded(rest, v)
    /\ rest[Len(v) + 1] = ":"

RECURSIVE NamedMatchLen(_, _, _)
\* the first alternative of the list, from the i-th, that matches; its length with ":"
NamedMatchLen(list, rest, i) ==
    IF i > Len(list) THEN 0
    ELSE IF NamedMatches(rest, list[i]) THEN Len(list[i]) + 1
    ELSE NamedMatchLen(list, rest, i + 1)

\* rest.match(partsRe): the length of m[0], or 0 when partsRe.test(rest) is false
VariantMatchLen(list, rest) ==
    LET arb == ArbMatchLen(rest)
    IN  IF arb > 0 THEN arb ELSE NamedMatchLen(list, rest, 1)

RECURSIVE SplitLoopUnclamped(_, _, _, _, _)
\* the loop with a depth that every ] decrements, below zero too
SplitLoopUnclamped(str, i, out, cur, depth) ==
    IF i > Len(str)
    THEN IF cur # <<>> THEN Append(out, cur) ELSE out
    ELSE LET ch == str[i]
             d1 == IF ch = "[" THEN depth + 1 ELSE depth
             d2 == IF ch = "]" THEN d1 - 1 ELSE d1
         IN  IF ch \in Whitespace /\ d2 = 0
             THEN SplitLoopUnclamped(str, i + 1,
                                     IF cur # <<>> THEN Append(out, cur) ELSE out,
                                     <<>>, d2)
             ELSE SplitLoopUnclamped(str, i + 1, out, Append(cur, ch), d2)

RECURSIVE SplitLoop(_, _, _, _, _)
SplitLoop(str, i, out, cur, depth) ==
    IF i > Len(str)
    THEN IF cur # <<>> THEN Append(out, cur) ELSE out
    ELSE LET ch == str[i]
             d1 == IF ch = "[" THEN depth + 1 ELSE depth
             d2 == IF ch = "]" /\ d1 > 0 THEN d1 - 1 ELSE d1
         IN  IF ch \in Whitespace /\ d2 = 0
             THEN SplitLoop(str, i + 1,
                            IF cur # <<>> THEN Append(out, cur) ELSE out,
                            <<>>, d2)
             ELSE SplitLoop(str, i + 1, out, Append(cur, ch), d2)

RECURSIVE SplitLoopFlag(_, _, _, _, _)
\* the loop with a flag in place of the depth counter: any ] leaves the brackets
SplitLoopFlag(str, i, out, cur, inside) ==
    IF i > Len(str)
    THEN IF cur # <<>> THEN Append(out, cur) ELSE out
    ELSE LET ch == str[i]
             now == IF ch = "[" THEN TRUE ELSE IF ch = "]" THEN FALSE ELSE inside
         IN  IF ch \in Whitespace /\ ~now
             THEN SplitLoopFlag(str, i + 1,
                                IF cur # <<>> THEN Append(out, cur) ELSE out,
                                <<>>, now)
             ELSE SplitLoopFlag(str, i + 1, out, Append(cur, ch), now)

\* splitTokens with that loop
splitTokensFlag(str) == SplitLoopFlag(str, 1, <<>>, <<>>, FALSE)

splitTokens(str) == SplitLoop(str, 1, <<>>, <<>>, 0)

\* the loop left after its first iteration
StripOnce(list, rest, vs) ==
    LET n == VariantMatchLen(list, rest)
    IN  IF n = 0 THEN [base |-> rest, variants |-> vs]
        ELSE [base |-> Drop(rest, n), variants |-> Append(vs, SubSeq(rest, 1, n - 1))]

RECURSIVE StripLoop(_, _, _)
StripLoop(list, rest, vs) ==
    LET n == VariantMatchLen(list, rest)
    IN  IF n = 0 THEN [base |-> rest, variants |-> vs]
        ELSE StripLoop(list, Drop(rest, n), Append(vs, SubSeq(rest, 1, n - 1)))

\* stripVariantsWith(makeVariantRegex(variants), token)
stripVariantsWith(variants, token) ==
    StripLoop(VariantList(variants), token, <<>>)


----------------------------------------------------------------------------
(* Classification *)

LayoutPrefixes ==
    << <<"c","o","n","t","a","i","n","e","r">>, <<"b","l","o","c","k">>,
       <<"i","n","l","i","n","e">>, <<"f","l","e","x">>, <<"g","r","i","d">>,
       <<"t","a","b","l","e">>, <<"f","l","o","w","-">>,
       <<"c","o","n","t","e","n","t","s">>, <<"c","o","l","-">>, <<"r","o","w","-">>,
       <<"j","u","s","t","i","f","y","-">>, <<"i","t","e","m","s","-">>,
       <<"c","o","n","t","e","n","t","-">>, <<"p","l","a","c","e","-">>,
       <<"o","r","d","e","r","-">>, <<"g","a","p","-">> >>

SizingPrefixes ==
    << <<"w","-">>, <<"h","-">>, <<"m","i","n","-","w","-">>, <<"m","a","x","-","w","-">>,
       <<"m","i","n","-","h","-">>, <<"m","a","x","-","h","-">>,
       <<"a","s","p","e","c","t","-">> >>

TypographyPrefixes ==
    << <<"f","o","n","t","-">>, <<"t","e","x","t","-","x","s">>,
       <<"t","e","x","t","-","s","m">>, <<"t","e","x","t","-","b","a","s","e">>,
       <<"t","e","x","t","-","l","g">>, <<"t","e","x","t","-","x","l">>,
       <<"t","e","x","t","-","[">>, <<"l","e","a","d","i","n","g","-">>,
       <<"t","r","a","c","k","i","n","g","-">>, <<"l","i","s","t","-">>,
       <<"t","r","u","n","c","a","t","e">>, <<"l","i","n","e","-","c","l","a","m","p","-">> >>

TextSizeForms ==
    << <<"x","s">>, <<"s","m">>, <<"b","a","s","e">>, <<"l","g">>, <<"x","l">> >>

ColorsPrefixes ==
    << <<"b","g","-">>, <<"f","r","o","m","-">>, <<"v","i","a","-">>, <<"t","o","-">>,
       <<"d","e","c","o","r","a","t","i","o","n","-">>,
       <<"u","n","d","e","r","l","i","n","e">>, <<"r","i","n","g","-">>,
       <<"s","h","a","d","o","w","-">>, <<"o","p","a","c","i","t","y","-">> >>

BordersPrefixes ==
    << <<"b","o","r","d","e","r">>, <<"r","o","u","n","d","e","d">>,
       <<"d","i","v","i","d","e","-">>, <<"o","u","t","l","i","n","e">> >>

EffectsPrefixes ==
    << <<"s","h","a","d","o","w","-">>, <<"b","l","u","r">>,
       <<"b","a","c","k","d","r","o","p","-">>, <<"t","r","a","n","s","f","o","r","m">>,
       <<"s","c","a","l","e","-">>, <<"r","o","t","a","t","e","-">>,
       <<"t","r","a","n","s","l","a","t","e","-">>, <<"s","k","e","w","-">> >>

InteractivityPrefixes ==
    << <<"c","u","r","s","o","r","-">>, <<"s","e","l","e","c","t","-">>,
       <<"p","o","i","n","t","e","r","-","e","v","e","n","t","s","-">>,
       <<"a","c","c","e","n","t","-">>, <<"a","p","p","e","a","r","a","n","c","e","-">>,
       <<"s","c","r","o","l","l","-">>, <<"t","r","a","n","s","i","t","i","o","n">>,
       <<"d","u","r","a","t","i","o","n","-">>, <<"e","a","s","e","-">>,
       <<"a","n","i","m","a","t","e","-">> >>

AccessibilityPrefixes ==
    << <<"s","r","-","o","n","l","y">>, <<"n","o","t","-","s","r","-","o","n","l","y">>,
       <<"a","r","i","a","-">>, <<"d","a","t","a","-">> >>

LayoutRe(s) == StartsWithAny(s, LayoutPrefixes)

\* c[trblxy]?-.+
BoxSide(s, c) ==
    /\ s # <<>> /\ s[1] = c
    /\ \/ Len(s) >= 3 /\ s[2] = "-" /\ s[3] \notin LineTerminators
       \/ /\ Len(s) >= 4 /\ s[2] \in {"t", "r", "b", "l", "x", "y"}
          /\ s[3] = "-" /\ s[4] \notin LineTerminators

SpacingRe(s) ==
    \/ BoxSide(s, "p")
    \/ BoxSide(s, "m")
    \/ StartsWith(s, <<"s","p","a","c","e","-","x","-">>)
    \/ StartsWith(s, <<"s","p","a","c","e","-","y","-">>)

SizingRe(s) == StartsWithAny(s, SizingPrefixes)

\* the typography pattern without its text- alternatives
TypographyReNoText(s) == StartsWithAny(s, << <<"f","o","n","t","-">> >>)

TypographyRe(s) == StartsWithAny(s, TypographyPrefixes)

\* text-(?!xs|sm|base|lg|xl)
TextColor(s) ==
    /\ StartsWith(s, <<"t","e","x","t","-">>)
    /\ ~StartsWithAny(Drop(s, 5), TextSizeForms)

ColorsRe(s) == StartsWithAny(s, ColorsPrefixes) \/ TextColor(s)

BordersRe(s) == StartsWithAny(s, BordersPrefixes)

EffectsRe(s) == StartsWithAny(s, EffectsPrefixes)

InteractivityRe(s) == StartsWithAny(s, InteractivityPrefixes)

AccessibilityRe(s) == StartsWithAny(s, AccessibilityPrefixes)

\* re.test(s) for the pattern of group
GroupRe(group, s) ==
    CASE group = "layout" -> LayoutRe(s)
      [] group = "spacing" -> SpacingRe(s)
      [] group = "sizing" -> SizingRe(s)
      [] group = "typography" -> TypographyRe(s)
      [] group = "colors" -> ColorsRe(s)
      [] group = "borders" -> BordersRe(s)
      [] group = "effects" -> EffectsRe(s)
      [] group = "interactivity" -> InteractivityRe(s)
      [] group = "accessibility" -> AccessibilityRe(s)

\* withPrefix(re, prefix).test(base), for the pattern re of group, anchored
\* at the start: the escaped prefix is injected after the ^ anchor
withPrefix(prefix, group, base) ==
    IF prefix = <<>> THEN GroupRe(group, base)
    ELSE StartsWith(base, prefix) /\ GroupRe(group, Drop(base, Len(prefix)))

\* An entry of customUtilities: a string, or a RegExp whose source is a
\* literal, with or without the g flag.
StringPattern(s) == [regexp |-> FALSE, source |-> s, global |-> FALSE]

RegExpPattern(s, g) == [regexp |-> TRUE, source |-> s, global |-> g]

RECURSIVE SearchFrom(_, _, _)
\* the least 0-based index >= from at which lit occurs in s, or -1
SearchFrom(s, lit, from) ==
    IF from + Len(lit) > Len(s) THEN -1
    ELSE IF HasAt(s, lit, from + 1) THEN from
    ELSE SearchFrom(s, lit, from + 1)

\* RegExpBuiltinExec for pat.test(base): the search starts at lastIndex when
\* pat is global and at 0 otherwise; the index of the match, or -1
TestIndex(pat, base, last) ==
    LET from == IF pat.global THEN last ELSE 0
    IN  IF from > Len(base) THEN -1 ELSE SearchFrom(base, pat.source, from)

\* base.startsWith(pat) for a string, pat.test(base) for a RegExp
PatternTest(pat, base, last) ==
    IF pat.regexp THEN TestIndex(pat, base, last) >= 0
    ELSE StartsWith(base, pat.source)

\* pat.lastIndex after the test: a global RegExp keeps the end of its match,
\* and 0 after a failed search
LastIndexAfter(pat, base, last) ==
    IF pat.regexp /\ pat.global
    THEN LET i == TestIndex(pat, base, last)
         IN  IF i < 0 THEN 0 ELSE i + Len(pat.source)
    ELSE last

RECURSIVE CustomLoop(_, _, _, _)
\* the customUtilities loop from entry i on: whether an entry matched (the
\* loop returns at the first that does) and the lastIndex values it leaves
CustomLoop(pats, base, li, i) ==
    IF i > Len(pats) THEN [matched |-> FALSE, lastIndex |-> li]
    ELSE LET li2 == [li EXCEPT ![i] = LastIndexAfter(pats[i], base, li[i])]
         IN  IF PatternTest(pats[i], base, li[i])
             THEN [matched |-> TRUE, lastIndex |-> li2]
             ELSE CustomLoop(pats, base, li2, i + 1)

CustomMatches(base, tw, li) == CustomLoop(tw.customUtilities, base, li, 1).matched

classifyWithConfig(base, tw, li) ==
    IF CustomMatches(base, tw, li) THEN "misc"
    ELSE IF withPrefix(tw.prefix, "layout", base) THEN "layout"
    ELSE IF withPrefix(tw.prefix, "spacing", base) THEN "spacing"
    ELSE IF withPrefix(tw.prefix, "sizing", base) THEN "sizing"
    ELSE IF withPrefix(tw.prefix, "typography", base) THEN "typography"
    ELSE IF withPrefix(tw.prefix, "colors", base) THEN "colors"
    ELSE IF withPrefix(tw.prefix, "borders", base) THEN "borders"
    ELSE IF withPrefix(tw.prefix, "effects", base) THEN "effects"
    ELSE IF withPrefix(tw.prefix, "interactivity", base) THEN "interactivity"
    ELSE IF withPrefix(tw.prefix, "accessibility", base) THEN "accessibility"
    ELSE "misc"

----------------------------------------------------------------------------
(* Order scores *)

HintSizingPrefixes ==
    << <<"w","-">>, <<"h","-">>, <<"m","i","n","-">>, <<"m","a","x","-">>,
       <<"a","s","p","e","c","t","-">> >>

HintEffectsPrefixes ==
    << <<"t","r","a","n","s","f","o","r","m">>, <<"s","c","a","l","e","-">>,
       <<"r","o","t","a","t","e","-">>, <<"t","r","a","n","s","l","a","t","e","-">>,
       <<"s","k","e","w","-">>, <<"b","l","u","r">>,
       <<"b","a","c","k","d","r","o","p","-">> >>

\* ORDER_HINTS.length
NumOrderHints == 16

\* the score of "no preference" in variantPriorityScore
NoVariantPriority == 9999

\* ORDER_HINTS[i].test(base), i from 0
OrderHintMatches(i, base) ==
    CASE i = 0 -> base = <<"c","o","n","t","a","i","n","e","r">>
      [] i = 1 -> \/ base = <<"b","l","o","c","k">>
                  \/ StartsThenDotStarEnd(base, <<"i","n","l","i","n","e">>)
                  \/ base = <<"c","o","n","t","e","n","t","s">>
      [] i = 2 -> base \in {<<"f","l","e","x">>, <<"g","r","i","d">>, <<"t","a","b","l","e">>}
      [] i = 3 -> \/ StartsWith(base, <<"c","o","l","-">>)
                  \/ ContainsThenDotStarEnd(base, <<"r","o","w","-">>)
      [] i = 4 -> StartsThenDotStarEnd(base, <<"g","a","p","-">>)
      [] i = 5 -> \/ StartsWith(base, <<"j","u","s","t","i","f","y","-">>)
                  \/ Contains(base, <<"i","t","e","m","s","-">>)
                  \/ Contains(base, <<"c","o","n","t","e","n","t","-">>)
                  \/ Contains(base, <<"p","l","a","c","e","-">>)
                  \/ ContainsThenDotStarEnd(base, <<"o","r","d","e","r","-">>)
      [] i = 6 -> StartsWith(base, <<"p">>)
      [] i = 7 -> StartsWith(base, <<"m">>)
      [] i = 8 -> StartsWith(base, <<"s","p","a","c","e","-">>)
      [] i = 9 -> StartsWithAny(base, HintSizingPrefixes)
      [] i = 10 -> TypographyRe(base)
      [] i = 11 -> ColorsRe(base)
      [] i = 12 -> BordersRe(base)
      [] i = 13 -> StartsWithAny(base, HintEffectsPrefixes)
      [] i = 14 -> InteractivityRe(base)
      [] i = 15 -> AccessibilityRe(base)

RECURSIVE FirstHint(_, _)
\* the loop of baseScore, from index i
FirstHint(base, i) ==
    IF i >= NumOrderHints THEN NumOrderHints + 1
    ELSE IF OrderHintMatches(i, base) THEN i
    ELSE FirstHint(base, i + 1)

baseScore(base) == FirstHint(base, 0)

\* order.indexOf(v), from 0; -1 when absent
RECURSIVE IndexFrom(_, _, _)
IndexFrom(order, v, i) ==
    IF i > Len(order) THEN -1
    ELSE IF order[i] = v THEN i - 1
    ELSE IndexFrom(order, v, i + 1)

\* order.indexOf(v), from 0; -1 when absent
IndexOf(order, v) == IndexFrom(order, v, 1)

RECURSIVE FirstListed(_, _, _)
\* the loop of variantPriorityScore, from the n-th variant
FirstListed(variants, order, n) ==
    IF n > Len(variants) THEN NoVariantPriority
    ELSE IF IndexOf(order, variants[n]) # -1 THEN IndexOf(order, variants[n])
    ELSE FirstListed(variants, order, n + 1)

variantPriorityScore(variants, order) ==
    IF order = <<>> \/ variants = <<>> THEN NoVariantPriority
    ELSE FirstListed(variants, order, 1)

----------------------------------------------------------------------------
(* Public API *)

\* the order with opts.groupOrder ignored
OrderOfDefault(o) == DEFAULT_ORDER

\* opts.groupOrder ?? DEFAULT_ORDER
OrderOf(o) == IF "groupOrder" \in DOMAIN o THEN o.groupOrder ELSE DEFAULT_ORDER

\* the keys of the buckets map: every key of order, and misc
BucketKeys(order) == {order[i] : i \in 1..Len(order)} \cup {"misc"}

\* one element of tokens.map((t, i) => ...)
ParseToken(t, i, tw, li) ==
    LET sv == stripVariantsWith(tw.variants, t)
    IN  [token |-> t, base |-> sv.base, variants |-> sv.variants,
         group |-> classifyWithConfig(sv.base, tw, li), idx |-> i,
         sBase |-> baseScore(sv.base),
         sVar |-> variantPriorityScore(sv.variants, tw.variants)]

\* the lastIndex values after token t has been classified
LastIndexAfterToken(t, tw, li) ==
    IF tw.customUtilities = <<>> THEN li
    ELSE CustomLoop(tw.customUtilities, stripVariantsWith(tw.variants, t).base,
                    li, 1).lastIndex

RECURSIVE ParseFrom(_, _, _, _)
ParseFrom(toks, i, tw, li) ==
    IF i > Len(toks) THEN <<>>
    ELSE <<ParseToken(toks[i], i - 1, tw, li)>>
         \o ParseFrom(toks, i + 1, tw, LastIndexAfterToken(toks[i], tw, li))

\* tokens.map((t, i) => ...)
ParseAll(toks, tw, li) == ParseFrom(toks, 1, tw, li)

RECURSIVE LastIndexFrom(_, _, _, _)
LastIndexFrom(toks, i, tw, li) ==
    IF i > Len(toks) THEN li
    ELSE LastIndexFrom(toks, i + 1, tw, LastIndexAfterToken(toks[i], tw, li))

\* the lastIndex values after every token of toks has been classified
LastIndexAfterAll(toks, tw, li) ==
    IF tw.customUtilities = <<>> THEN li ELSE LastIndexFrom(toks, 1, tw, li)

RECURSIVE FindFrom(_, _, _)
FindFrom(items, t, i) ==
    IF items[i].token = t THEN items[i] ELSE FindFrom(items, t, i + 1)

\* parsed.find((p) => p.token === t), for a token t of parsed
FindParsed(items, t) == FindFrom(items, t, 1)

RECURSIVE FindAll(_, _)
\* arr.map((t) => parsed.find((p) => p.token === t))
FindAll(arr, items) ==
    IF arr = <<>> THEN <<>>
    ELSE <<FindParsed(items, arr[1])>> \o FindAll(Tail(arr), items)

\* the comparator with the base score compared before the variant score
CompareBaseFirst(a, b) ==
    IF a.sBase # b.sBase THEN a.sBase - b.sBase
    ELSE IF a.sVar # b.sVar THEN a.sVar - b.sVar
    ELSE a.idx - b.idx

\* the comparator a.sVar - b.sVar || a.sBase - b.sBase || a.idx - b.idx
Compare(a, b) ==
    IF a.sVar # b.sVar THEN a.sVar - b.sVar
    ELSE IF a.sBase # b.sBase THEN a.sBase - b.sBase
    ELSE a.idx - b.idx

\* Array.prototype.sort with a comparator: a stable sort
RECURSIVE InsertSorted(_, _)
\* x put into the sorted list after every element that does not compare above it
InsertSorted(sorted, x) ==
    IF sorted = <<>> THEN <<x>>
    ELSE IF Compare(sorted[Len(sorted)], x) <= 0 THEN Append(sorted, x)
    ELSE Append(InsertSorted(SubSeq(sorted, 1, Len(sorted) - 1), x),
                sorted[Len(sorted)])

RECURSIVE SortFrom(_, _, _)
SortFrom(items, i, sorted) ==
    IF i > Len(items) THEN sorted
    ELSE SortFrom(items, i + 1, InsertSorted(sorted, items[i]))

\* items.sort(comparator): Array.prototype.sort is stable
Sort(items) == SortFrom(items, 1, <<>>)

RECURSIVE TokensOf(_)
\* items.map((x) => x.token)
TokensOf(items) ==
    IF items = <<>> THEN <<>> ELSE <<items[1].token>> \o TokensOf(Tail(items))

\* the sort of one bucket: tokens -> items -> sorted -> tokens
SortBucket(arr, items) == TokensOf(Sort(FindAll(arr, items)))

\* the tokens pushed to bucket k, in input order
Distribute(items, k) == TokensOf(SelectSeq(items, LAMBDA it : it.group = k))

\* the chunks without the filter of the empty buckets
SplitChunksUnfiltered(order, bk) ==
    [i \in 1..Len(order) |-> Join(bk[order[i]], <<" ">>)]

\* order.map(k => buckets.get(k)).filter(g => g.length).map(g => g.join(" "))
SplitChunks(order, bk) ==
    LET lists == [i \in 1..Len(order) |-> bk[order[i]]]
        kept == SelectSeq(lists, LAMBDA g : Len(g) # 0)
    IN  [i \in 1..Len(kept) |-> Join(kept[i], <<" ">>)]

NoResult ==
    [threw |-> TRUE, tokens |-> <<>>, parsed |-> <<>>, buckets |-> <<>>,
     emitted |-> <<>>, flat |-> <<>>, chunks |-> <<>>]

\* formatClasses from the parsed items on: bucket, sort, join.  The call throws
\* when buckets.get(item.group) is undefined for some item.
FormatParsed(o, toks, items) ==
    LET order == OrderOf(o)
        keys == BucketKeys(order)
        bk == [k \in keys |-> SortBucket(Distribute(items, k), items)]
        flatList == FlatMap(order, bk)
    IN  IF \E i \in 1..Len(items) : items[i].group \notin keys
        THEN [NoResult EXCEPT !.tokens = toks, !.parsed = items]
        ELSE [threw |-> FALSE, tokens |-> toks, parsed |-> items, buckets |-> bk,
              emitted |-> IF o.splitPerGroup THEN <<>> ELSE flatList,
              flat |-> IF o.splitPerGroup THEN <<>>
                       ELSE Trim(Join(flatList, <<" ">>)),
              chunks |-> IF o.splitPerGroup THEN SplitChunks(order, bk) ELSE <<>>]

\* formatClasses(str, o): what the call computes (parsed is computed once)
formatClasses(str, o, li) ==
    LET toks == splitTokens(str)
    IN  CHOOSE r \in {FormatParsed(o, toks, items) :
                          items \in {ParseAll(toks, o.tailwind, li)}} : TRUE

\* tokenize(str)
tokenize(str) == splitTokens(str)

\* categorize without the guarantee of the misc entry
categorizeListed(str, o, li) ==
    LET items == ParseAll(splitTokens(str), o.tailwind, li)
    IN  [k \in {OrderOf(o)[i] : i \in 1..Len(OrderOf(o))} |-> Distribute(items, k)]

\* categorize(str, o): map holds every group's tokens in input order, and
\* ordered takes the entries of order, then misc
categorize(str, o, li) ==
    LET order == OrderOf(o)
    IN  CHOOSE r \in {[k \in BucketKeys(order) |-> Distribute(items, k)] :
                          items \in {ParseAll(splitTokens(str), o.tailwind, li)}} : TRUE

----------------------------------------------------------------------------
(* The calls the model makes *)

\* the command line is not running
CliIdle ==
    /\ disk = <<>>
    /\ cliOpts = [dry |-> FALSE, useCn |-> FALSE]
    /\ cliPc = "idle"
    /\ cursor = 0
    /\ changed = 0
    /\ log = <<>>
    /\ run = 0

\* the longest input, in pieces
MaxPieces == 5

NoTailwind == [prefix |-> <<>>, variants |-> <<>>, customUtilities |-> <<>>]

Flat == [splitPerGroup |-> FALSE, tailwind |-> NoTailwind]

Split == [splitPerGroup |-> TRUE, tailwind |-> NoTailwind]

WithOrder(o, order) ==
    [k \in DOMAIN o \cup {"groupOrder"} |-> IF k = "groupOrder" THEN order ELSE o[k]]

GroupOrders ==
    { <<>>,
      <<"spacing", "layout">>,
      <<"misc", "spacing", "layout">>,
      <<"layout", "spacing", "layout", "misc">> }

\* The families of calls: the pieces an input is assembled from, and the options.
BracketCalls ==
    [pieces |-> {<<"[">>, <<"]">>, <<" ">>, <<"\n">>, <<"x">>},
     options |-> {Flat, Split}]

GroupCalls ==
    [pieces |-> {<<"f","l","e","x">>, <<"p","-","1">>, <<"x">>, <<" ">>},
     options |-> {Flat, Split,
                  [Flat EXCEPT !.tailwind.customUtilities = <<StringPattern(<<"f","l">>)>>]}
                 \cup {WithOrder(o, g) : o \in {Flat, Split}, g \in GroupOrders}]

VariantCalls ==
    [pieces |-> {<<"s","m",":">>, <<"h","o","v","e","r",":">>, <<"p","-","1">>, <<"m","-","1">>, <<" ">>},
     options |-> {[Flat EXCEPT !.tailwind.variants = <<<<"s","m">>, <<"h","o","v","e","r">>>>]}]

PrefixCalls ==
    [pieces |-> {<<"t","w","-","m","-","2">>, <<"t","w","-","p","-","4">>, <<"t","w","-","f","l","e","x">>, <<" ">>},
     options |-> {[Flat EXCEPT !.tailwind.prefix = <<"t","w","-">>]}]

OpenBracketCalls ==
    [pieces |-> {<<"]",":","f","l","e","x">>, <<"p","-","1">>, <<"[","r","o","w","-">>, <<" ">>},
     options |-> {Flat}]

Calls == {BracketCalls, GroupCalls, VariantCalls, PrefixCalls, OpenBracketCalls}

Init ==
    /\ \E c \in Calls : pieces = c.pieces /\ opts \in c.options
    /\ input = <<>>
    /\ typed = 0
    /\ pc = "input"
    /\ tokens = <<>>
    /\ parsed = <<>>
    /\ buckets = <<>>
    /\ emitted = <<>>
    /\ ret = [flat |-> <<>>, chunks |-> <<>>]
    /\ ret2 = [flat |-> <<>>, chunks |-> <<>>]
    /\ lastIndex = [i \in 1..Len(opts.tailwind.customUtilities) |-> 0]
    /\ ordered = <<>>
    /\ CliIdle

\* the caller extends the class string by one piece
Type(p) ==
    /\ pc = "input"
    /\ typed < MaxPieces
    /\ input' = input \o p
    /\ typed' = typed + 1
    /\ UNCHANGED <<pieces, opts, pc, tokens, parsed, buckets, emitted, ret, ret2,
                   lastIndex, ordered>>
    /\ UNCHANGED cliVars

\* formatClasses(input, opts)
Format ==
    /\ pc = "input"
    /\ \E r \in {formatClasses(input, opts, lastIndex)} :
           /\ pc' = IF r.threw THEN "threw" ELSE "returned"
           /\ tokens' = r.tokens
           /\ parsed' = r.parsed
           /\ buckets' = r.buckets
           /\ emitted' = r.emitted
           /\ ret' = [flat |-> r.flat, chunks |-> r.chunks]
    /\ lastIndex' = LastIndexAfterAll(splitTokens(input), opts.tailwind, lastIndex)
    /\ UNCHANGED <<pieces, input, typed, opts, ret2, ordered>>
    /\ UNCHANGED cliVars

\* formatClasses(ret, opts): the formatter applied to its own flat output
Reformat ==
    /\ pc = "returned"
    /\ ~opts.splitPerGroup
    /\ \E r \in {formatClasses(ret.flat, opts, lastIndex)} :
           /\ pc' = IF r.threw THEN "rethrew" ELSE "reformatted"
           /\ ret2' = [flat |-> r.flat, chunks |-> r.chunks]
    /\ lastIndex' = LastIndexAfterAll(splitTokens(ret.flat), opts.tailwind, lastIndex)
    /\ UNCHANGED <<pieces, input, typed, opts, tokens, parsed, buckets, emitted, ret,
                   ordered>>
    /\ UNCHANGED cliVars

\* tokenize(input)
Tokenize ==
    /\ pc = "input"
    /\ tokens' = tokenize(input)
    /\ pc' = "tokenized"
    /\ UNCHANGED <<pieces, input, typed, opts, parsed, buckets, emitted, ret, ret2,
                   lastIndex, ordered>>
    /\ UNCHANGED cliVars

Next ==
    \/ \E p \in pieces : Type(p)
    \/ Format
    \/ Reformat
    \/ Tokenize

Spec == Init /\ [][Next]_vars

----------------------------------------------------------------------------
(* The calls that exercise categorize, the classifier and the variant splitter *)

CategorizeCalls ==
    [pieces |-> {<<"m","-","1">>, <<"p","-","1">>, <<"x">>, <<" ">>},
     options |-> {Flat, WithOrder(Flat, <<"spacing", "layout">>),
                  WithOrder(Flat, <<"layout">>)}]

CustomCalls ==
    [pieces |-> {<<"f","l","e","x">>, <<"h","-","1">>, <<"x">>, <<" ">>},
     options |-> {[Flat EXCEPT !.tailwind.customUtilities = <<StringPattern(<<"f","l">>)>>],
                  [Flat EXCEPT !.tailwind.customUtilities = <<RegExpPattern(<<"l","e">>, FALSE)>>],
                  [Flat EXCEPT !.tailwind.customUtilities = <<RegExpPattern(<<"l","e">>, TRUE)>>]}]

TextCalls ==
    [pieces |-> {<<"t","e","x","t","-">>, <<"s","m">>, <<"[">>, <<" ">>},
     options |-> {Flat,
                  [Flat EXCEPT !.tailwind.prefix = <<"t","w","-">>],
                  [Flat EXCEPT !.tailwind.customUtilities = <<StringPattern(<<"t","e","x","t","-","s">>)>>]}]

ShadowCalls ==
    [pieces |-> {<<"s","h","a","d","o","w","-">>, <<"b","l","u","r">>, <<" ">>},
     options |-> {Flat}]

SplitterCalls ==
    [pieces |-> {<<"S","m">>, <<":">>, <<"[">>, <<"x","]">>},
     options |-> {[Flat EXCEPT !.tailwind.variants = <<<<"m">>, <<"s","m">>>>]}]

TokenizerCalls ==
    [pieces |-> {<<"[">>, <<"]">>, <<" ">>, <<"x">>},
     options |-> {Flat}]

ClassifyCalls ==
    {CategorizeCalls, CustomCalls, TextCalls, ShadowCalls, SplitterCalls, TokenizerCalls}

ClassifyInit ==
    /\ \E c \in ClassifyCalls : pieces = c.pieces /\ opts \in c.options
    /\ input = <<>>
    /\ typed = 0
    /\ pc = "input"
    /\ tokens = <<>>
    /\ parsed = <<>>
    /\ buckets = <<>>
    /\ emitted = <<>>
    /\ ret = [flat |-> <<>>, chunks |-> <<>>]
    /\ ret2 = [flat |-> <<>>, chunks |-> <<>>]
    /\ lastIndex = [i \in 1..Len(opts.tailwind.customUtilities) |-> 0]
    /\ ordered = <<>>
    /\ CliIdle

\* categorize(input, opts)
Categorize ==
    /\ pc = "input"
    /\ tokens' = splitTokens(input)
    /\ ordered' = categorize(input, opts, lastIndex)
    /\ lastIndex' = LastIndexAfterAll(splitTokens(input), opts.tailwind, lastIndex)
    /\ pc' = "categorized"
    /\ UNCHANGED <<pieces, input, typed, opts, parsed, buckets, emitted, ret, ret2>>
    /\ UNCHANGED cliVars

ClassifyNext ==
    \/ \E p \in pieces : Type(p)
    \/ Categorize
    \/ Format
    \/ Tokenize

ClassifySpec == ClassifyInit /\ [][ClassifyNext]_vars

----------------------------------------------------------------------------
(* Properties *)

Range(s) == {s[i] : i \in 1..Len(s)}

\* the multiset of the elements of a sequence
BagOf(s) == [x \in Range(s) |-> Cardinality({i \in 1..Len(s) : s[i] = x})]

ReturnedFlat == pc = "returned" /\ ~opts.splitPerGroup

ReturnedSplit == pc = "returned" /\ opts.splitPerGroup

\* the group order the caller asked for, or the documented default
DocumentedOrder ==
    IF "groupOrder" \in DOMAIN opts THEN opts.groupOrder
    ELSE <<"layout", "spacing", "sizing", "typography", "colors", "borders",
           "effects", "interactivity", "accessibility", "misc">>

NoRepeatedKey(order) ==
    \A i, j \in 1..Len(order) : order[i] = order[j] => i = j

\* the first position of group g in the order
FirstPos(order, g) == CHOOSE i \in 1..Len(order) :
                          order[i] = g /\ \A j \in 1..(i - 1) : order[j] # g

\* the group the call classified token t into
GroupOfToken(t) ==
    LET i == CHOOSE i \in 1..Len(parsed) : parsed[i].token = t
    IN  parsed[i].group

\* (C1) formatClasses is idempotent in flat-string mode: formatting the flat
\* output again, with the same options, returns that output.
C1_Idempotent ==
    /\ pc # "rethrew"
    /\ pc = "reformatted" => ret2.flat = ret.flat

\* (C2) Token conservation: when groupOrder holds every group the input
\* populates, the tokens of the flat output are, as a multiset, the tokens of
\* the input.
C2_TokenConservation ==
    (/\ ReturnedFlat
     /\ \A i \in 1..Len(parsed) : parsed[i].group \in Range(DocumentedOrder))
    => BagOf(tokenize(ret.flat)) = BagOf(tokenize(input))

\* (C3) formatClasses never fails: every call returns a value.
C3_NeverFails == pc \notin {"threw", "rethrew"}

\* the items of group k in the lexicographic order of (sVar, sBase, idx)
KeyBelow(a, b) ==
    \/ a.sVar < b.sVar
    \/ a.sVar = b.sVar /\ a.sBase < b.sBase
    \/ a.sVar = b.sVar /\ a.sBase = b.sBase /\ a.idx < b.idx

ByCompositeKey(k) ==
    LET mine == SelectSeq(parsed, LAMBDA it : it.group = k)
        n == Len(mine)
        At(r) == CHOOSE i \in 1..n :
                     Cardinality({j \in 1..n : KeyBelow(mine[j], mine[i])}) = r - 1
    IN  [r \in 1..n |-> mine[At(r)].token]

\* (C4) Each bucket holds its tokens in the order of the composite key
\* (variantScore, baseScore, original index), every occurrence of a token
\* with its own original index.
C4_CompositeKeyOrder ==
    pc = "returned" => \A k \in DOMAIN buckets : buckets[k] = ByCompositeKey(k)

\* two emitted tokens of different groups: the one whose group comes earlier
\* in the order comes first
EarlierGroupFirst(order) ==
    \A i, j \in 1..Len(emitted) :
        LET gi == GroupOfToken(emitted[i])
            gj == GroupOfToken(emitted[j])
        IN  (i < j /\ gi # gj) => FirstPos(order, gi) < FirstPos(order, gj)

RECURSIVE BucketsByEntry(_, _)
\* the buckets of the first n entries of the order, one after the other
BucketsByEntry(order, n) ==
    IF n = 0 THEN <<>> ELSE BucketsByEntry(order, n - 1) \o buckets[order[n]]

RECURSIVE Spaced(_)
\* the tokens of a list separated by single spaces
Spaced(list) ==
    IF list = <<>> THEN <<>>
    ELSE IF Len(list) = 1 THEN list[1]
    ELSE list[1] \o <<" ">> \o Spaced(Tail(list))

RECURSIVE ChunkPerEntry(_, _)
\* one chunk per entry, among the first n of the order, whose bucket is not empty
ChunkPerEntry(order, n) ==
    IF n = 0 THEN <<>>
    ELSE IF buckets[order[n]] = <<>> THEN ChunkPerEntry(order, n - 1)
    ELSE Append(ChunkPerEntry(order, n - 1), Spaced(buckets[order[n]]))

RECURSIVE ChunkPerKey(_, _)
\* one chunk per key, among the first n entries of the order, whose bucket is
\* not empty: a key counts at its first entry only
ChunkPerKey(order, n) ==
    IF n = 0 THEN <<>>
    ELSE IF \/ buckets[order[n]] = <<>>
            \/ \E m \in 1..(n - 1) : order[m] = order[n]
         THEN ChunkPerKey(order, n - 1)
    ELSE Append(ChunkPerKey(order, n - 1), Spaced(buckets[order[n]]))

ListedIndex(t) ==
    LET list == opts.tailwind.variants
        own == (FindParsed(parsed, t)).variants
        listed == {n \in 1..Len(own) : own[n] \in Range(list)}
    IN  IF listed = {} THEN Len(list) + 1
        ELSE LET first == CHOOSE n \in listed : \A m \in listed : n <= m
             IN  CHOOSE i \in 1..Len(list) :
                     list[i] = own[first] /\ \A j \in 1..(i - 1) : list[j] # own[first]

\* (C7) With a variant priority list, the tokens of a bucket are ordered first
\* by the list index of their first listed variant; tokens with no listed
\* variant come after every token that has one.
C7_VariantPriorityFirst ==
    (pc = "returned" /\ opts.tailwind.variants # <<>>) =>
        \A k \in DOMAIN buckets :
            \A i, j \in 1..Len(buckets[k]) :
                i < j => ListedIndex(buckets[k][i]) <= ListedIndex(buckets[k][j])

\* a bucket whose first token came later in the input and has the higher base
\* score, but the variant of smaller index; and a token without listed variant
C7_Witness ==
    /\ pc = "returned"
    /\ opts.tailwind.variants # <<>>
    /\ Len(parsed) = 2
    /\ parsed[1].group = parsed[2].group
    /\ parsed[2].sVar < parsed[1].sVar
    /\ parsed[1].sVar < NoVariantPriority
    /\ parsed[1].sBase < parsed[2].sBase
    /\ buckets[parsed[1].group] = <<parsed[2].token, parsed[1].token>>

\* the call's tokens without the configured prefix, and the same options
\* without a prefix
Unprefixed(toks) ==
    [i \in 1..Len(toks) |-> Drop(toks[i], Len(opts.tailwind.prefix))]

NoPrefixOpts == [opts EXCEPT !.tailwind.prefix = <<>>]

\* (C8) With a prefix configured, a prefixed token gets the group and the order
\* scores its unprefixed form gets without a prefix, so a list of prefixed
\* utilities is permuted as the list of the unprefixed ones is.
C8_PrefixTransparent ==
    (/\ ReturnedFlat
     /\ opts.tailwind.prefix # <<>>
     /\ \A i \in 1..Len(tokens) : StartsWith(tokens[i], opts.tailwind.prefix))
    => /\ \A i \in 1..Len(parsed) :
              LET bare == ParseToken(Unprefixed(tokens)[i], i - 1,
                                     NoPrefixOpts.tailwind, lastIndex)
              IN  /\ parsed[i].group = bare.group
                  /\ parsed[i].sBase = bare.sBase
                  /\ parsed[i].sVar = bare.sVar
       /\ Unprefixed(emitted)
              = formatClasses(Spaced(Unprefixed(tokens)), NoPrefixOpts,
                              lastIndex).emitted

\* no doubled, leading or trailing whitespace
CleanWhitespace(s) ==
    /\ \A i \in 1..(Len(s) - 1) : ~(s[i] \in Whitespace /\ s[i + 1] \in Whitespace)
    /\ s # <<>> => (s[1] \notin Whitespace /\ s[Len(s)] \notin Whitespace)

\* (C9) The output never holds two consecutive whitespace characters and never
\* starts or ends with whitespace, in flat mode and in every chunk.
C9_CleanWhitespace ==
    pc = "returned" =>
        /\ CleanWhitespace(ret.flat)
        /\ \A i \in 1..Len(ret.chunks) : CleanWhitespace(ret.chunks[i])

\* the bracket depth of position i of s: the [ up to and including i, less the
\* ] before i
Opened(s, i) == Cardinality({j \in 1..i : s[j] = "["})

Closed(s, i) == Cardinality({j \in 1..i : s[j] = "]"})

Balanced(s) ==
    /\ \A i \in 1..Len(s) : Closed(s, i) <= Opened(s, i)
    /\ Opened(s, Len(s)) = Closed(s, Len(s))

InsideBrackets(s, i) == Opened(s, i) > Closed(s, i)

\* a separator: whitespace outside every bracket
Separator(s, i) == s[i] \in Whitespace /\ ~InsideBrackets(s, i)

\* the maximal runs of s between separators, from left to right
Runs(s) ==
    LET starts == {i \in 1..Len(s) :
                      ~Separator(s, i) /\ (i = 1 \/ Separator(s, i - 1))}
        EndOf(b) == CHOOSE e \in b..Len(s) :
                        /\ \A j \in b..e : ~Separator(s, j)
                        /\ e = Len(s) \/ Separator(s, e + 1)
        Nth(n) == CHOOSE b \in starts :
                      Cardinality({c \in starts : c < b}) = n - 1
    IN  [n \in 1..Cardinality(starts) |-> SubSeq(s, Nth(n), EndOf(Nth(n)))]

\* (C10) Bracket atomicity: for an input with balanced brackets, the tokens are
\* the runs between whitespace outside brackets; whitespace inside brackets,
\* nested ones too, stays in its token, and every token is balanced.
C10_BracketAtomicity ==
    (pc \in {"tokenized", "returned", "threw"} /\ Balanced(input)) =>
        /\ tokens = Runs(input)
        /\ \A i \in 1..Len(tokens) : Balanced(tokens[i])

\* tokenize on an input with whitespace inside nested brackets: one token
C10_Witness ==
    /\ pc = "tokenized"
    /\ Balanced(input)
    /\ \E i \in 1..Len(input) :
           /\ input[i] \in Whitespace
           /\ Opened(input, i) - Closed(input, i) = 2
    /\ Len(tokens) = 1

----------------------------------------------------------------------------
(* Properties of categorize, the classifier and the variant splitter *)

\* the lastIndex values before the first call
ZeroIndex == [i \in 1..Len(opts.tailwind.customUtilities) |-> 0]

\* the group the call's classifier gave to each token of the input
GroupsOfTokens == 
    LET items == ParseAll(tokens, opts.tailwind, ZeroIndex)
    IN  [i \in 1..Len(tokens) |-> items[i].group]

\* the tokens at the positions pos, in ascending order of position
TokensAt(pos) ==
    LET Nth(n) == CHOOSE i \in pos : Cardinality({j \in pos : j <= i}) = n
    IN  [n \in 1..Cardinality(pos) |-> tokens[Nth(n)]]

\* (C11) categorize returns a mapping whose keys are exactly the keys of the
\* effective groupOrder and misc, and each entry holds the input tokens of that
\* group in their original relative order.
C11_CategorizeBuckets ==
    pc = "categorized" =>
        LET groups == GroupsOfTokens
        IN  /\ DOMAIN ordered = Range(OrderOf(opts)) \cup {"misc"}
            /\ \A k \in DOMAIN ordered :
                   ordered[k] = TokensAt({i \in 1..Len(tokens) : groups[i] = k})

\* categorize with a groupOrder without misc: misc is an entry and holds a
\* token, the entry of spacing holds two tokens in the order the sort would
\* reverse, and the entry of layout is empty
C11_Witness ==
    /\ pc = "categorized"
    /\ "groupOrder" \in DOMAIN opts
    /\ opts.groupOrder = <<"spacing", "layout">>
    /\ ordered["misc"] = << <<"x">> >>
    /\ ordered["spacing"] = << <<"m","-","1">>, <<"p","-","1">> >>
    /\ ordered["layout"] = <<>>

\* the tokens of the returned value: of the flat string, or of the chunks
OutputTokens ==
    IF opts.splitPerGroup THEN splitTokens(Join(ret.chunks, <<" ">>))
    ELSE splitTokens(ret.flat)

\* (C12) With a groupOrder that omits misc, the call returns, in flat mode and
\* in splitPerGroup mode alike: the tokens classified as misc are absent from
\* the output and the tokens of every listed group are present.
C12_MiscDropped ==
    (/\ pc \in {"returned", "threw"}
     /\ "groupOrder" \in DOMAIN opts
     /\ "misc" \notin Range(opts.groupOrder))
    => /\ pc = "returned"
       /\ \A i \in 1..Len(parsed) :
              /\ parsed[i].group = "misc" => parsed[i].token \notin Range(OutputTokens)
              /\ parsed[i].group \in Range(opts.groupOrder)
                     => parsed[i].token \in Range(OutputTokens)

\* pattern pat of customUtilities matches base: a string is a prefix of it, the
\* source of a RegExp occurs in it
PatternMatches(pat, base) ==
    IF pat.regexp THEN \E i \in 1..(Len(base) + 1) : HasAt(base, pat.source, i)
    ELSE StartsWith(base, pat.source)

\* (C13) A token whose base starts with a configured string pattern or matches
\* a configured RegExp pattern is classified as misc, whatever heuristic group
\* the base would have.
C13_CustomShortCircuit ==
    pc \in {"returned", "threw"} =>
        \A i \in 1..Len(parsed) :
            (\E j \in 1..Len(opts.tailwind.customUtilities) :
                 PatternMatches(opts.tailwind.customUtilities[j], parsed[i].base))
            => parsed[i].group = "misc"

TextDash == <<"t","e","x","t","-">>

\* the size forms the typography rule reserves, and the opening bracket
SizeForms ==
    << <<"x","s">>, <<"s","m">>, <<"b","a","s","e">>, <<"l","g">>, <<"x","l">>, <<"[">> >>

\* the group the claim gives to a base that begins with text-
TextGroup(base) ==
    IF \E i \in 1..Len(SizeForms) : StartsWith(Drop(base, Len(TextDash)), SizeForms[i])
    THEN "typography" ELSE "colors"

\* (C14, as stated) Every base that begins with text- is typography when a size
\* form or [ follows text-, and colors otherwise; never misc.
C14_TextTypographyOrColors ==
    pc \in {"returned", "threw"} =>
        \A i \in 1..Len(parsed) :
            StartsWith(parsed[i].base, TextDash)
            => parsed[i].group = TextGroup(parsed[i].base)

\* (C14) With no prefix configured and no custom utility that matches it, every
\* base that begins with text- is typography when a size form or [ follows
\* text-, and colors otherwise; never misc.
C14_TextByHeuristics ==
    (pc \in {"returned", "threw"} /\ opts.tailwind.prefix = <<>>) =>
        \A i \in 1..Len(parsed) :
            (/\ StartsWith(parsed[i].base, TextDash)
             /\ \A j \in 1..Len(opts.tailwind.customUtilities) :
                    ~PatternMatches(opts.tailwind.customUtilities[j], parsed[i].base))
            => parsed[i].group = TextGroup(parsed[i].base)

\* one call with a size form, a bracket form and a color form of text-, while a
\* custom utility is configured that matches none of them
C14_Witness ==
    /\ pc = "returned"
    /\ opts.tailwind.prefix = <<>>
    /\ opts.tailwind.customUtilities # <<>>
    /\ \E i \in 1..Len(parsed) :
           /\ StartsWith(parsed[i].base, TextDash \o <<"[">>)
           /\ parsed[i].group = "typography"
    /\ \E i \in 1..Len(parsed) :
           /\ parsed[i].base = TextDash
           /\ parsed[i].group = "colors"

ShadowDash == <<"s","h","a","d","o","w","-">>

\* (C15) A token whose base begins with shadow- is classified into effects.
C15_ShadowIsEffects ==
    pc \in {"returned", "threw"} =>
        \A i \in 1..Len(parsed) :
            StartsWith(parsed[i].base, ShadowDash) => parsed[i].group = "effects"

\* label is a variant segment's label: a bracketed form [...] with at least
\* one character and no ] inside, or a listed variant up to letter case
IsVariantLabel(list, label) ==
    \/ /\ Len(label) >= 3
       /\ label[1] = "["
       /\ label[Len(label)] = "]"
       /\ \A j \in 2..(Len(label) - 1) : label[j] # "]"
    \/ \E v \in Range(list) :
           /\ Len(v) = Len(label)
           /\ \A j \in 1..Len(v) : Lower(v[j]) = Lower(label[j])

\* s begins with a variant segment: a label followed by ":"
HasLeadingVariant(list, s) ==
    \E n \in 1..Len(s) : s[n] = ":" /\ IsVariantLabel(list, SubSeq(s, 1, n - 1))

RECURSIVE WithColons(_)
\* the labels, each followed by ":", concatenated
WithColons(labels) ==
    IF labels = <<>> THEN <<>>
    ELSE labels[1] \o <<":">> \o WithColons(Tail(labels))

\* (C16) Variant splitting is a lossless prefix decomposition: the labels, each
\* followed by ":", then the base reproduce the token; every label is a variant
\* label and the base has no leading variant segment; a token with no leading
\* variant has an empty variant list and is its own base.
C16_LosslessSplit ==
    pc \in {"returned", "threw"} =>
        \A i \in 1..Len(parsed) :
            LET it == parsed[i]
                list == VariantList(opts.tailwind.variants)
            IN  /\ WithColons(it.variants) \o it.base = it.token
                /\ \A j \in 1..Len(it.variants) : IsVariantLabel(list, it.variants[j])
                /\ ~HasLeadingVariant(list, it.base)
                /\ ~HasLeadingVariant(list, it.token)
                       => it.variants = <<>> /\ it.base = it.token

\* a token split into two variants, one of them listed in another letter case,
\* in front of a non-empty base
C16_Witness ==
    /\ pc = "returned"
    /\ \E i \in 1..Len(parsed) :
           /\ Len(parsed[i].variants) = 2
           /\ <<"S","m">> \in Range(parsed[i].variants)
           /\ <<"S","m">> \notin Range(opts.tailwind.variants)
           /\ parsed[i].base # <<>>

RECURSIVE ClampedDepth(_, _)
\* the bracket depth after the first i characters of s: +1 on [, -1 on ], never
\* below zero
ClampedDepth(s, i) ==
    IF i = 0 THEN 0
    ELSE LET d == ClampedDepth(s, i - 1)
         IN  IF s[i] = "[" THEN d + 1
             ELSE IF s[i] = "]" /\ d > 0 THEN d - 1
             ELSE d

\* the maximal runs of s between the positions of seps, from left to right
RunsBetween(s, seps) ==
    LET starts == {i \in 1..Len(s) : i \notin seps /\ (i = 1 \/ (i - 1) \in seps)}
        EndOf(b) == CHOOSE e \in b..Len(s) :
                        /\ \A j \in b..e : j \notin seps
                        /\ e = Len(s) \/ (e + 1) \in seps
        Nth(n) == CHOOSE b \in starts :
                      Cardinality({c \in starts : c < b}) = n - 1
    IN  [n \in 1..Cardinality(starts) |-> SubSeq(s, Nth(n), EndOf(Nth(n)))]

\* the [ at position i is never closed: the depth stays above zero from i on
NeverClosed(s, i) ==
    s[i] = "[" /\ \A j \in i..Len(s) : ClampedDepth(s, j) > 0

\* (C17) The tokenizer does not validate bracket balance: the tokens are the
\* runs between the whitespace at clamped depth zero, so after a [ that is
\* never closed everything up to the end of the input is in the last token, and
\* a stray ] at depth zero leaves later whitespace a separator.
C17_UnterminatedBracket ==
    pc = "tokenized" =>
        /\ tokens = RunsBetween(input, {i \in 1..Len(input) :
                                           /\ input[i] \in Whitespace
                                           /\ ClampedDepth(input, i) = 0})
        /\ \A i \in 1..Len(input) :
               NeverClosed(input, i) =>
                   /\ tokens # <<>>
                   /\ Len(tokens[Len(tokens)]) >= Len(input) - i + 1
                   /\ tokens[Len(tokens)]
                          = SubSeq(input, Len(input) - Len(tokens[Len(tokens)]) + 1,
                                   Len(input))

\* a stray ] followed by whitespace that separates, then a [ that is never
\* closed and keeps the whitespace after it in its token
C17_Witness ==
    /\ pc = "tokenized"
    /\ Len(input) >= 4
    /\ input[1] = "]"
    /\ input[2] \in Whitespace
    /\ NeverClosed(input, 3)
    /\ input[4] \in Whitespace
    /\ Len(tokens) = 2
    /\ tokens[1] = <<"]">>

----------------------------------------------------------------------------
(* The command line: formatTailwindInDir rewrites the class strings of the  *)
(* source files of a directory.  A file is its import declarations and its  *)
(* class-bearing nodes in traversal order: class attributes and calls.      *)

\* the most files in the directory
MaxFiles == 2

\* the names the rewriter takes for a merge-call helper
Candidates == <<"cn", "clsx", "cx", "classnames", "classNames">>

StaticArg(v) == [static |-> TRUE, value |-> v]

\* an argument that is not a static string
DynamicArg == [static |-> FALSE, value |-> <<>>]

\* className="v"
ClassAttr(v) == [kind |-> "attr", wrapped |-> FALSE, raw |-> v, callee |-> "", args |-> <<>>]

\* className={callee(args)}
WrappedAttr(callee, args) ==
    [kind |-> "attr", wrapped |-> TRUE, raw |-> <<>>, callee |-> callee, args |-> args]

\* callee(args) outside a class attribute
HelperCall(callee, args) ==
    [kind |-> "call", wrapped |-> FALSE, raw |-> <<>>, callee |-> callee, args |-> args]

ImportDefault(local, source) == [local |-> local, source |-> source]

SourceFile(imports, nodes) == [status |-> "ok", imports |-> imports, nodes |-> nodes]

\* a file fs.readFile rejects, or parse throws on
BrokenFile(status) == [status |-> status, imports |-> <<>>, nodes |-> <<>>]

\* the names bound in the scope of the file as parsed
Bindings(imports) == {imports[i].local : i \in 1..Len(imports)}

RECURSIVE StaticValues(_)
\* stringLiteralIndices.map((i) => getStaticStringArg(args[i]))
StaticValues(args) ==
    IF args = <<>> THEN <<>>
    ELSE IF args[1].static THEN <<args[1].value>> \o StaticValues(Tail(args))
    ELSE StaticValues(Tail(args))

RECURSIVE StaticArgs(_)
\* groups.map((g) => t.stringLiteral(g))
StaticArgs(groups) ==
    IF groups = <<>> THEN <<>>
    ELSE <<StaticArg(groups[1])>> \o StaticArgs(Tail(groups))

\* the groups of the static arguments of a call in merge-call mode
GroupsOfArgs(args) ==
    formatClasses(Join(StaticValues(args), <<" ">>), Split, <<>>).chunks

\* the argument list of the call with the groups at the first static argument
RegroupedArgs(args, groups) ==
    LET first == CHOOSE i \in 1..Len(args) :
                     args[i].static /\ \A j \in 1..(i - 1) : ~args[j].static
    IN  SubSeq(args, 1, first - 1) \o StaticArgs(groups)
        \o SelectSeq(SubSeq(args, first + 1, Len(args)), LAMBDA a : ~a.static)

\* the merge-call branch of the CallExpression visitor, groups being computed
Regroup(args, groups) ==
    LET values == StaticValues(args)
        originalSingle == Len(values) = 1
        originalCombinedEqualsSingle ==
            originalSingle /\ Len(groups) = 1 /\ groups[1] = values[1]
    IN  IF values = <<>> \/ groups = <<>>
        THEN [args |-> args, mutated |-> FALSE]
        ELSE IF ~originalCombinedEqualsSingle \/ Len(groups) > 1 \/ ~originalSingle
        THEN [args |-> RegroupedArgs(args, groups), mutated |-> TRUE]
        ELSE [args |-> args, mutated |-> FALSE]

\* the plain branch of the CallExpression visitor, pretty being computed
SortSingle(args, pretty) ==
    IF pretty # args[1].value
    THEN [args |-> <<StaticArg(pretty)>>, mutated |-> TRUE]
    ELSE [args |-> args, mutated |-> FALSE]

\* the CallExpression visitor: the arguments it leaves and whether it set mutated
VisitCall(callee, args, useCn) ==
    IF callee \notin {Candidates[i] : i \in 1..Len(Candidates)}
    THEN [args |-> args, mutated |-> FALSE]
    ELSE IF useCn
    THEN CHOOSE r \in {Regroup(args, groups) : groups \in {GroupsOfArgs(args)}} : TRUE
    ELSE IF Len(args) = 1 /\ args[1].static
    THEN CHOOSE r \in {SortSingle(args, pretty) :
                           pretty \in {formatClasses(args[1].value, Flat, <<>>).flat}} : TRUE
    ELSE [args |-> args, mutated |-> FALSE]

RECURSIVE FirstBound(_, _)
\* candidates.find((n) => path.scope.hasBinding(n)), or "" for undefined
FirstBound(bound, i) ==
    IF i > Len(Candidates) THEN ""
    ELSE IF Candidates[i] \in bound THEN Candidates[i]
    ELSE FirstBound(bound, i + 1)

\* the merge-call branch of the JSXAttribute visitor, groups being computed,
\* then the traversal of the call it leaves; falls through when there is no group
WrapAttr(node, bound, imports, groups) ==
    LET found == FirstBound(bound, 1)
        alreadyHasClassNames ==
            \E i \in 1..Len(imports) : imports[i].source = "classnames"
        helper == IF found = "" THEN "classNames" ELSE found
    IN  [node |-> WrappedAttr(helper, VisitCall(helper, StaticArgs(groups), TRUE).args),
         imports |-> IF found = "" /\ ~alreadyHasClassNames
                     THEN <<ImportDefault("classNames", "classnames")>> \o imports
                     ELSE imports,
         mutated |-> TRUE]

\* the plain branch of the JSXAttribute visitor, pretty being computed
SortAttr(node, imports, pretty) ==
    IF pretty # node.raw
    THEN [node |-> ClassAttr(pretty), imports |-> imports, mutated |-> TRUE]
    ELSE [node |-> node, imports |-> imports, mutated |-> FALSE]

\* the JSXAttribute visitor on a literal class attribute: the node, the import
\* declarations of the program and whether mutated was set
VisitAttr(node, bound, imports, useCn) ==
    IF node.raw = <<>> THEN [node |-> node, imports |-> imports, mutated |-> FALSE]
    ELSE CHOOSE r \in
             {IF useCn /\ groups # <<>> THEN WrapAttr(node, bound, imports, groups)
              ELSE SortAttr(node, imports, formatClasses(node.raw, Flat, <<>>).flat) :
                  groups \in {IF useCn THEN formatClasses(node.raw, Split, <<>>).chunks
                               ELSE <<>>}} : TRUE

\* the visitors on one node of the file
VisitNode(node, bound, imports, useCn) ==
    IF node.kind = "attr" /\ ~node.wrapped THEN VisitAttr(node, bound, imports, useCn)
    ELSE CHOOSE x \in {[node |-> [node EXCEPT !.args = r.args], imports |-> imports,
                        mutated |-> r.mutated] :
                           r \in {VisitCall(node.callee, node.args, useCn)}} : TRUE

RECURSIVE TraverseFrom(_, _, _, _, _, _)
\* traverse(ast, visitors) from the i-th node on
TraverseFrom(nodes, i, bound, imports, useCn, mutated) ==
    IF i > Len(nodes) THEN [nodes |-> nodes, imports |-> imports, mutated |-> mutated]
    ELSE CHOOSE x \in {TraverseFrom([nodes EXCEPT ![i] = r.node], i + 1, bound, r.imports,
                                    useCn, mutated \/ r.mutated) :
                           r \in {VisitNode(nodes[i], bound, imports, useCn)}} : TRUE

\* one file of the loop, parsed: the ast after the traversal, and mutated
Rewrite(file, useCn) ==
    TraverseFrom(file.nodes, 1, Bindings(file.imports), file.imports, useCn, FALSE)

\* the class strings the files of the model hold
UnsortedClasses == <<"p","-","1"," ","f","l","e","x">>

SortedClasses == <<"f","l","e","x"," ","p","-","1">>

OneClass == <<"f","l","e","x">>

OpenBracketClasses ==
    <<"p","-","1"," ","]",":","f","l","e","x"," ","[","r","o","w","-">>

\* the files a directory of the model may hold
FileContents ==
    { BrokenFile("unparsable"),
      BrokenFile("unreadable"),
      SourceFile(<<>>, <<ClassAttr(UnsortedClasses)>>),
      SourceFile(<<>>, <<ClassAttr(SortedClasses)>>),
      SourceFile(<<>>, <<ClassAttr(OneClass), ClassAttr(UnsortedClasses)>>),
      SourceFile(<<>>, <<ClassAttr(OpenBracketClasses)>>),
      SourceFile(<<ImportDefault("cn", "./utils")>>, <<ClassAttr(UnsortedClasses)>>),
      SourceFile(<<ImportDefault("classes", "classnames")>>, <<ClassAttr(OneClass)>>),
      SourceFile(<<ImportDefault("cn", "./utils")>>,
                 <<HelperCall("cn", <<StaticArg(OneClass), StaticArg(<<"p","-","1">>)>>)>>),
      SourceFile(<<ImportDefault("cn", "./utils")>>,
                 <<HelperCall("cn", <<StaticArg(OneClass)>>)>>),
      SourceFile(<<ImportDefault("cn", "./utils")>>,
                 <<HelperCall("cn", <<DynamicArg, StaticArg(UnsortedClasses)>>)>>) }

\* the core functions are idle while the command line runs
CallIdle ==
    /\ pieces = {}
    /\ opts = Flat
    /\ input = <<>>
    /\ typed = 0
    /\ pc = "idle"
    /\ tokens = <<>>
    /\ parsed = <<>>
    /\ buckets = <<>>
    /\ emitted = <<>>
    /\ ret = [flat |-> <<>>, chunks |-> <<>>]
    /\ ret2 = [flat |-> <<>>, chunks |-> <<>>]
    /\ lastIndex = <<>>
    /\ ordered = <<>>

\* formatTailwindInDir(dir, {dry, useCn}) has globbed the files of dir
CliInit ==
    /\ CallIdle
    /\ \E n \in 1..MaxFiles : disk \in [1..n -> FileContents]
    /\ cliOpts \in [dry : BOOLEAN, useCn : BOOLEAN]
    /\ cliPc = "running"
    /\ cursor = 1
    /\ changed = 0
    /\ log = <<>>
    /\ run = 1

\* one iteration of the loop over the files, on a file that is read and parsed
ProcessFile ==
    /\ cliPc = "running"
    /\ cursor <= Len(disk)
    /\ disk[cursor].status = "ok"
    /\ \E r \in {Rewrite(disk[cursor], cliOpts.useCn)} :
           LET output == SourceFile(r.imports, r.nodes)
           IN  /\ disk' = IF r.mutated /\ ~cliOpts.dry
                          THEN [disk EXCEPT ![cursor] = output] ELSE disk
               /\ changed' = IF r.mutated THEN changed + 1 ELSE changed
               /\ log' = Append(log, [run |-> run, file |-> cursor,
                                      before |-> disk[cursor], after |-> output,
                                      mutated |-> r.mutated])
    /\ cursor' = cursor + 1
    /\ UNCHANGED <<cliOpts, cliPc, run>>
    /\ UNCHANGED coreVars

\* fs.readFile rejects or parse throws: the promise of formatTailwindInDir
\* rejects, the catch handler prints the error and exits with status 1
FailOnFile ==
    /\ cliPc = "running"
    /\ cursor <= Len(disk)
    /\ disk[cursor].status # "ok"
    /\ cliPc' = "failed"
    /\ UNCHANGED <<disk, cliOpts, cursor, changed, log, run>>
    /\ UNCHANGED coreVars

\* the loop is over: the summary line is printed
Finish ==
    /\ cliPc = "running"
    /\ cursor > Len(disk)
    /\ cliPc' = "done"
    /\ UNCHANGED <<disk, cliOpts, cursor, changed, log, run>>
    /\ UNCHANGED coreVars

\* the command is run again, with the same options, on the files it left
RunAgain ==
    /\ cliPc = "done"
    /\ run = 1
    /\ run' = 2
    /\ cliPc' = "running"
    /\ cursor' = 1
    /\ changed' = 0
    /\ UNCHANGED <<disk, cliOpts, log>>
    /\ UNCHANGED coreVars

CliNext ==
    \/ ProcessFile
    \/ FailOnFile
    \/ Finish
    \/ RunAgain

CliSpec == CliInit /\ [][CliNext]_vars

----------------------------------------------------------------------------
(* Properties of the command line *)

\* (C18) File processing is independent per file: when the run is over, every
\* discovered file that can be read and parsed has been processed, whatever
\* happened to the other files.
C18_FilesIndependent ==
    cliPc \in {"done", "failed"} =>
        \A i \in 1..Len(disk) :
            disk[i].status = "ok"
            => \E k \in 1..Len(log) : log[k].run = run /\ log[k].file = i

\* (C19) A file is marked mutated, and so rewritten and counted, only if its
\* class strings or merge-call arguments differ after formatting; a second run
\* on the files a first run has written marks no file.
C19_MutatedOnlyIfDiffers ==
    \A k \in 1..Len(log) :
        /\ log[k].mutated => log[k].after # log[k].before
        /\ (~cliOpts.dry /\ log[k].run = 2) => ~log[k].mutated

\* (C20) In merge-call mode every helper call synthesized for a class attribute
\* refers to a name bound by an import of the rewritten file, and at most one
\* import is inserted.
C20_HelperBound ==
    \A k \in 1..Len(log) :
        LET before == log[k].before
            after == log[k].after
        IN  /\ Len(after.imports) <= Len(before.imports) + 1
            /\ \A n \in 1..Len(after.nodes) :
                   (/\ after.nodes[n].kind = "attr"
                    /\ after.nodes[n].wrapped
                    /\ ~before.nodes[n].wrapped)
                   => after.nodes[n].callee \in Bindings(after.imports)

====
